---- MODULE Spec2Model ----
(***************************************************************************)
(* A state-machine model of the forecast terminal program: the bubbletea   *)
(* model struct, its Update dispatch and the three screen handlers         *)
(* (updateSearch, updateLocation, updateForecast), the fuzzy filter of the *)
(* location table, the site-data load and the flattening of raw forecasts. *)
(*                                                                         *)
(* Every Go string is a sequence of symbols, so that concatenation,        *)
(* comparison, case folding and parsing are computed, not assumed.         *)
(* The widgets the program embeds (table, list, text input) and the fuzzy  *)
(* matcher are libraries; they are modelled by the calls the program       *)
(* makes on them.                                                          *)
(***************************************************************************)
EXTENDS Integers, Sequences, FiniteSets, TLC

VARIABLES
    m,           \* the model struct held by the bubbletea program
    placenames,  \* package variable: names used for fuzzy matching
    rows,        \* package variable: the table rows, sorted by name
    status,      \* "running" | "quit" | "fatal" | "panic"
    quitCmd,     \* Update has returned the command tea.Quit
    lastMsg,     \* the message the last Update call was given, as the
                 \* switch statements of the program tell messages apart
    handler,     \* the screen handler the last Update call ran ("none" if none)
    req,         \* the site-data requests of the last Update call, each with
                 \* the response it got
    call         \* a call of one function on its own (getForecastData,
                 \* getForecastListItems, extractRows, the row filter,
                 \* data.Fetch): its arguments and, once made, its result

vars == <<m, placenames, rows, status, quitCmd, lastMsg, handler, req, call>>

----------------------------------------------------------------------------
(* Bounds of the model *)

MaxQueryLen == 2
MaxPerPage == 2
MaxLabelLen == 4
MaxPeriods == 2
MaxForecasts == 2
MaxLocations == 3
MaxBodyLen == 2

----------------------------------------------------------------------------
(* Strings *)

Min2(a, b) == IF a < b THEN a ELSE b
Max2(a, b) == IF a > b THEN a ELSE b

\* Byte order of the symbols used in names and queries (ASCII: upper < lower).
Ord(c) ==
    CASE c = "A" -> 65 [] c = "R" -> 82 [] c = "a" -> 97 [] c = "q" -> 113
      [] c = "r" -> 114 [] OTHER -> 0

\* Go's < on strings: bytewise lexicographic.
RECURSIVE StrLess(_, _)
StrLess(s, t) ==
    IF t = <<>> THEN FALSE
    ELSE IF s = <<>> THEN TRUE
    ELSE IF Ord(Head(s)) < Ord(Head(t)) THEN TRUE
    ELSE IF Ord(Head(s)) > Ord(Head(t)) THEN FALSE
    ELSE StrLess(Tail(s), Tail(t))

\* Unicode simple case folding of one symbol.
FoldChar(c) == CASE c = "A" -> "a" [] c = "R" -> "r" [] OTHER -> c

Fold(s) == [i \in 1..Len(s) |-> FoldChar(s[i])]

\* Permutations of 1..n.
Perms(n) == {p \in [1..n -> 1..n] : \A i, j \in 1..n : p[i] = p[j] => i = j}

\* Every arrangement of the elements of s.
Arrangements(s) == {[i \in 1..Len(s) |-> s[p[i]]] : p \in Perms(Len(s))}

----------------------------------------------------------------------------
(* fuzzy.RankFindFold and sort.Sort(Ranks) *)

\* fuzzy.matchTransformed: the symbols of source occur, in order, in target.
RECURSIVE IsSubseq(_, _)
IsSubseq(source, target) ==
    IF Len(target) < Len(source) THEN FALSE
    ELSE IF source = <<>> THEN TRUE
    ELSE IF Head(source) = Head(target)
         THEN IsSubseq(Tail(source), Tail(target))
         ELSE IsSubseq(source, Tail(target))

\* MatchFold without the fold.
MatchExact(source, target) == IsSubseq(source, target)

MatchFold(source, target) == IsSubseq(Fold(source), Fold(target))

RECURSIVE LevenshteinDistance(_, _)
LevenshteinDistance(s, t) ==
    IF s = <<>> THEN Len(t)
    ELSE IF t = <<>> THEN Len(s)
    ELSE LET sub == LevenshteinDistance(Tail(s), Tail(t))
                    + (IF Head(s) = Head(t) THEN 0 ELSE 1)
             del == LevenshteinDistance(Tail(s), t) + 1
             ins == LevenshteinDistance(s, Tail(t)) + 1
         IN  Min2(sub, Min2(del, ins))

\* One Rank per matching target, in target order; the distance is taken on
\* the strings as given (the fold is used for the match only).
RECURSIVE RankFindFold(_, _, _)
RankFindFold(source, targets, from) ==
    IF from > Len(targets) THEN <<>>
    ELSE (IF MatchFold(source, targets[from])
          THEN << [Source |-> source, Target |-> targets[from],
                   Distance |-> LevenshteinDistance(source, targets[from]),
                   OriginalIndex |-> from - 1] >>
          ELSE <<>>)
         \o RankFindFold(source, targets, from + 1)

\* Ranks.Less with the comparison turned round.
RankLessFarthestFirst(a, b) == a.Distance > b.Distance

\* Ranks.Less
RankLess(a, b) == a.Distance < b.Distance

\* sort.Sort(matchedNames): any arrangement in nondecreasing Distance.
SortedRanks(rs) ==
    {t \in Arrangements(rs) : \A i \in 1..Len(t) - 1 : ~RankLess(t[i + 1], t[i])}

----------------------------------------------------------------------------
(* The sitelist and extractRows *)

Loc(name, id, region) == [Name |-> name, Id |-> id, Region |-> region]

\* The location lists the sitelist endpoint is taken to serve.
SiteLists ==
    { << Loc(<<"r","a">>, <<"2">>, <<"se">>),
         Loc(<<"A","r">>, <<"1">>, <<"nw">>) >>,
      << >> }

\* table.Row{location.Name, location.Id, location.Region}
Row(l) == <<l.Name, l.Id, l.Region>>

\* Rows.Less with the comparison turned round.
RowLessDescending(a, b) == StrLess(b[1], a[1])

\* Rows.Less: by the Name column.
RowLess(a, b) == StrLess(a[1], b[1])

\* extractRows: slices.Sort(placenames) and sort.Sort(rows).
\* slices.Sort(placenames): equal strings are indistinguishable, so the sorted
\* sequence is unique.
SortedNames(names) ==
    CHOOSE t \in Arrangements(names) :
        \A i \in 1..Len(t) - 1 : ~StrLess(t[i + 1], t[i])

\* SortedRows leaving the rows in the order they were appended in.
SortedRowsAsFetched(rs) == {rs}

\* sort.Sort(rows): sort.Sort gives no guarantee on the order of equal
\* elements, so every arrangement ordered under Rows.Less is a possible result.
SortedRows(rs) ==
    {t \in Arrangements(rs) : \A i \in 1..Len(t) - 1 : ~RowLess(t[i + 1], t[i])}

ExtractPlacenames(locs) == SortedNames([i \in 1..Len(locs) |-> locs[i].Name])
ExtractRows(locs) == SortedRows([i \in 1..Len(locs) |-> Row(locs[i])])

----------------------------------------------------------------------------
(* Forecast data: data.Forecast, forecastData and getForecastData *)

dailyResolution == <<"daily">>
threeHourlyResolution == <<"3hourly">>

DayLabel == <<"D","a","y">>
NightLabel == <<"N","i","g","h","t">>

\* The zero value of forecastData.
ZeroForecastData ==
    [Time |-> <<>>, WeatherCode |-> <<>>, UV |-> <<>>, WindDirection |-> <<>>,
     WindSpeed |-> <<>>, Visibility |-> <<>>, Precipitation |-> <<>>,
     Humidity |-> <<>>, GustSpeed |-> <<>>, Temperature |-> <<>>,
     FeelsLikeTemp |-> <<>>]

\* ForecastShape reading a "Night" record as a "Day" record.
ForecastShapeNightAsDay(resolution, f) ==
    IF resolution = dailyResolution /\ f.Time \in {DayLabel, NightLabel} THEN "Day"
    ELSE "Hourly"

\* The branch getForecastData takes: it tests the resolution and the label,
\* and everything that is neither daily/"Day" nor daily/"Night" is read as an
\* hourly record.
ForecastShape(resolution, f) ==
    IF resolution = dailyResolution /\ f.Time = DayLabel THEN "Day"
    ELSE IF resolution = dailyResolution /\ f.Time = NightLabel THEN "Night"
    ELSE "Hourly"

getForecastData(resolution, f) ==
    LET common == [ZeroForecastData EXCEPT
                     !.Time = f.Time, !.WeatherCode = f.WeatherCode,
                     !.WindDirection = f.WindDirection,
                     !.WindSpeed = f.WindSpeed, !.Visibility = f.Visibility]
        shape == ForecastShape(resolution, f)
    IN  IF shape = "Day"
        THEN [common EXCEPT
                !.UV = f.Day.UV, !.Precipitation = f.Day.Precipitation,
                !.Humidity = f.Day.Humidity, !.GustSpeed = f.Day.GustSpeed,
                !.Temperature = f.Day.Temperature,
                !.FeelsLikeTemp = f.Day.FeelsLikeTemp]
        ELSE IF shape = "Night"
        THEN [common EXCEPT
                !.Precipitation = f.Night.Precipitation,
                !.Humidity = f.Night.Humidity, !.GustSpeed = f.Night.GustSpeed,
                !.Temperature = f.Night.Temperature,
                !.FeelsLikeTemp = f.Night.FeelsLikeTemp]
        ELSE [common EXCEPT
                !.UV = f.Hourly.UV, !.Precipitation = f.Hourly.Precipitation,
                !.Humidity = f.Hourly.Humidity, !.GustSpeed = f.Hourly.GustSpeed,
                !.Temperature = f.Hourly.Temperature,
                !.FeelsLikeTemp = f.Hourly.FeelsLikeTemp]

\* data.WeatherCodes, for the codes the served data uses; a code that is not
\* a key maps to the empty string.
WeatherCodes(code) ==
    CASE code = <<"0">> -> <<"Clear night">>
      [] code = <<"1">> -> <<"Sunny day">>
      [] code = <<"7">> -> <<"Cloudy">>
      [] OTHER -> <<>>

----------------------------------------------------------------------------
(* time.Parse, strconv.Atoi and fmt.Sprintf("%02d:00") *)

\* time.Parse("2006-01-02Z", s) followed by Format("Mon, 02 Jan 2006"), for
\* the dates the served data uses; any other string fails to parse.
ParseDate(s) ==
    CASE s = <<"2024-01-01Z">> -> [ok |-> TRUE, text |-> <<"Mon, 01 Jan 2024">>]
      [] s = <<"2024-01-02Z">> -> [ok |-> TRUE, text |-> <<"Tue, 02 Jan 2024">>]
      [] OTHER -> [ok |-> FALSE, text |-> <<>>]

Digits == <<"0", "1", "2", "3", "4", "5", "6", "7", "8", "9">>

IsDigit(c) == \E i \in 1..10 : Digits[i] = c
DigitVal(c) == (CHOOSE i \in 1..10 : Digits[i] = c) - 1

RECURSIVE DigitsVal(_, _)
DigitsVal(s, acc) ==
    IF s = <<>> THEN acc ELSE DigitsVal(Tail(s), acc * 10 + DigitVal(Head(s)))

\* strconv.Atoi: an optional sign followed by one or more decimal digits.
Atoi(s) ==
    LET signed == s # <<>> /\ Head(s) \in {"+", "-"}
        body == IF signed THEN Tail(s) ELSE s
    IN  IF body = <<>> \/ \E i \in 1..Len(body) : ~IsDigit(body[i])
        THEN [ok |-> FALSE, val |-> 0]
        ELSE [ok |-> TRUE,
              val |-> IF signed /\ Head(s) = "-"
                      THEN 0 - DigitsVal(body, 0) ELSE DigitsVal(body, 0)]

\* Go's integer division truncates toward zero.
GoDiv(a, b) == IF a >= 0 THEN a \div b ELSE 0 - ((0 - a) \div b)

RECURSIVE Itoa(_)
Itoa(n) ==
    IF n < 0 THEN <<"-">> \o Itoa(0 - n)
    ELSE IF n < 10 THEN <<Digits[n + 1]>>
    ELSE Itoa(n \div 10) \o <<Digits[(n % 10) + 1]>>

\* FormatHour without the padding.
FormatHourUnpadded(hours) == Itoa(hours) \o <<":", "0", "0">>

\* fmt.Sprintf("%02d:00", hours): zero-padded to a width of two, sign included.
FormatHour(hours) ==
    (IF hours >= 0 /\ hours < 10 THEN <<"0">> \o Itoa(hours) ELSE Itoa(hours))
    \o <<":", "0", "0">>

----------------------------------------------------------------------------
(* getForecastListItems *)

\* forecastTime: the label as it is, or under the three-hourly resolution
\* the hour of the minutes it states; fatal when it states none.
ForecastTime(resolution, time) ==
    LET minutes == Atoi(time)
    IN  IF resolution = threeHourlyResolution
        THEN [fatal |-> ~minutes.ok, text |-> FormatHour(GoDiv(minutes.val, 60))]
        ELSE [fatal |-> FALSE, text |-> time]

\* The title and description of the list item of one forecast, or the
\* log.Fatal the conversion of its time ends in.
ForecastItem(resolution, dateText, f, pIndex, fIndex) ==
    LET fd == getForecastData(resolution, f)
        desc == WeatherCodes(fd.WeatherCode)
                \o <<" | ">> \o fd.Temperature \o <<"°C">>
                \o <<" | ">> \o fd.WindSpeed \o <<"mph">>
        fatal == ForecastTime(resolution, fd.Time).fatal
        forecastTime == ForecastTime(resolution, fd.Time).text
    IN  [fatal |-> fatal,
         item |-> [title |-> dateText \o <<" (">> \o forecastTime \o <<")">>,
                   desc |-> desc,
                   periodIndex |-> pIndex, forecastIndex |-> fIndex]]

\* The inner loop: the items of the forecasts fIndex.. of one period.
RECURSIVE PeriodItems(_, _, _, _, _)
PeriodItems(resolution, dateText, forecasts, pIndex, fIndex) ==
    IF fIndex >= Len(forecasts) THEN [fatal |-> FALSE, items |-> <<>>]
    ELSE LET one == ForecastItem(resolution, dateText, forecasts[fIndex + 1],
                                 pIndex, fIndex)
             rest == PeriodItems(resolution, dateText, forecasts, pIndex, fIndex + 1)
         IN  IF one.fatal THEN [fatal |-> TRUE, items |-> <<>>]
             ELSE [fatal |-> rest.fatal, items |-> <<one.item>> \o rest.items]

\* getForecastListItemsFrom putting the items of a later period first.
RECURSIVE getForecastListItemsLaterFirst(_, _, _)
getForecastListItemsLaterFirst(resolution, periods, pIndex) ==
    IF pIndex >= Len(periods) THEN [fatal |-> FALSE, items |-> <<>>]
    ELSE LET period == periods[pIndex + 1]
             date == ParseDate(period.Date)
             here == PeriodItems(resolution, date.text, period.Forecasts, pIndex, 0)
             rest == getForecastListItemsLaterFirst(resolution, periods, pIndex + 1)
         IN  IF ~date.ok \/ here.fatal \/ rest.fatal
             THEN [fatal |-> TRUE, items |-> <<>>]
             ELSE [fatal |-> FALSE, items |-> rest.items \o here.items]

\* The outer loop: the items of the periods pIndex.. ; the date of a period
\* is parsed before its forecasts are read.
RECURSIVE getForecastListItemsFrom(_, _, _)
getForecastListItemsFrom(resolution, periods, pIndex) ==
    IF pIndex >= Len(periods) THEN [fatal |-> FALSE, items |-> <<>>]
    ELSE LET period == periods[pIndex + 1]
             date == ParseDate(period.Date)
         IN  IF ~date.ok THEN [fatal |-> TRUE, items |-> <<>>]
             ELSE LET here == PeriodItems(resolution, date.text, period.Forecasts,
                                          pIndex, 0)
                      rest == getForecastListItemsFrom(resolution, periods, pIndex + 1)
                  IN  IF here.fatal THEN [fatal |-> TRUE, items |-> <<>>]
                      ELSE [fatal |-> rest.fatal,
                            items |-> IF rest.fatal THEN <<>>
                                      ELSE here.items \o rest.items]

getForecastListItems(resolution, siteData) ==
    getForecastListItemsFrom(resolution, siteData.Periods, 0)

----------------------------------------------------------------------------
(* The site-data endpoint and getSiteData *)

JsonKeys ==
    {"$", "W", "V", "D", "S", "U", "PPd", "Hn", "Gn", "Dm", "FDm",
     "PPn", "Hm", "Gm", "Nm", "FNm", "Pp", "H", "G", "T", "F"}

\* One "Rep" object of the served document: every key present, each value
\* naming its key, so that a field read from the wrong key shows.
RawForecast(time, code, tag) ==
    [k \in JsonKeys |->
        IF k = "$" THEN time ELSE IF k = "W" THEN code ELSE <<k, tag>>]

RawPeriod(date, reps) == [value |-> date, Rep |-> reps]

RawLocation(name, country, periods) ==
    [name |-> name, country |-> country, Period |-> periods]

\* json.Unmarshal into data.Forecast. The key "U" is claimed by two embedded
\* structs (Day.UV and Hourly.UV) at the same depth, both tagged, so
\* encoding/json drops it: neither field is ever set.
DecodeForecast(raw) ==
    [Time |-> raw["$"], WeatherCode |-> raw["W"], Visibility |-> raw["V"],
     WindDirection |-> raw["D"], WindSpeed |-> raw["S"],
     Day |-> [UV |-> <<>>, Precipitation |-> raw["PPd"], Humidity |-> raw["Hn"],
              GustSpeed |-> raw["Gn"], Temperature |-> raw["Dm"],
              FeelsLikeTemp |-> raw["FDm"]],
     Night |-> [Precipitation |-> raw["PPn"], Humidity |-> raw["Hm"],
                GustSpeed |-> raw["Gm"], Temperature |-> raw["Nm"],
                FeelsLikeTemp |-> raw["FNm"]],
     Hourly |-> [UV |-> <<>>, Precipitation |-> raw["Pp"], Humidity |-> raw["H"],
                 GustSpeed |-> raw["G"], Temperature |-> raw["T"],
                 FeelsLikeTemp |-> raw["F"]]]

DecodePeriod(raw) ==
    [Date |-> raw.value,
     Forecasts |-> [i \in 1..Len(raw.Rep) |-> DecodeForecast(raw.Rep[i])]]

\* json.Unmarshal into data.SiteData, reduced to Site.Info.Location.
DecodeSiteData(raw) ==
    [Name |-> raw.name, Country |-> raw.country,
     Periods |-> [i \in 1..Len(raw.Period) |-> DecodePeriod(raw.Period[i])]]

\* The zero value of data.SiteData.
ZeroSiteData == [Name |-> <<>>, Country |-> <<>>, Periods |-> <<>>]

DocDaily ==
    RawLocation(<<"Ara">>, <<"EN">>,
      << RawPeriod(<<"2024-01-01Z">>,
           << RawForecast(DayLabel, <<"1">>, "1"),
              RawForecast(NightLabel, <<"0">>, "2") >>),
         RawPeriod(<<"2024-01-02Z">>,
           << RawForecast(DayLabel, <<"7">>, "3") >>) >>)

DocHourly ==
    RawLocation(<<"Ara">>, <<"EN">>,
      << RawPeriod(<<"2024-01-01Z">>,
           << RawForecast(<<"0">>, <<"0">>, "4"),
              RawForecast(<<"1", "8", "0">>, <<"7">>, "5") >>),
         RawPeriod(<<"2024-01-02Z">>,
           << RawForecast(<<"1", "2", "9", "0">>, <<"1">>, "6") >>) >>)

DocNoPeriods == RawLocation(<<"Ara">>, <<"EN">>, << >>)

DocNoForecasts ==
    RawLocation(<<"Ara">>, <<"EN">>, << RawPeriod(<<"2024-01-01Z">>, << >>) >>)

DocBadDate ==
    RawLocation(<<"Ara">>, <<"EN">>,
      << RawPeriod(<<"01/01/2024">>, << RawForecast(DayLabel, <<"1">>, "7") >>) >>)

\* What becomes of the GET request of data.Fetch: the request fails; the
\* read of the body fails, some bytes of it read; or the body is read whole.
Transports(bodies) ==
    {[get |-> "error"]}
    \cup {[get |-> "ok", read |-> "error", body |-> b] : b \in bodies}
    \cup {[get |-> "ok", read |-> "ok", body |-> b] : b \in bodies}

\* The nil slice, told apart from the empty one.
NilBytes == [nil |-> TRUE, bytes |-> <<>>]

\* Fetch handing on what was read before the read failed.
FetchKeepingPartial(t) ==
    IF t.get = "error" THEN NilBytes ELSE [nil |-> FALSE, bytes |-> t.body]

\* data.Fetch: nil when c.Get or io.ReadAll fails, else the body read.
Fetch(t) ==
    IF t.get = "error" THEN NilBytes
    ELSE IF t.read = "error" THEN NilBytes
    ELSE [nil |-> FALSE, bytes |-> t.body]

\* What data.Fetch and the endpoint can hand getSiteData: no body (the request
\* or the read failed), a body that is not the expected JSON, or a document.
Responses ==
    {[kind |-> "nil"], [kind |-> "malformed"]}
    \cup {[kind |-> "json", doc |-> d] :
            d \in {DocDaily, DocHourly, DocNoPeriods, DocNoForecasts, DocBadDate}}

\* The request getSiteData builds: the site in the endpoint, the resolution
\* in the "res" parameter.
SiteRequest(siteId, resolution) == [site |-> siteId, res |-> resolution]

\* getSiteData on a response: log.Fatal when the body is nil or does not
\* decode, else the decoded data.
getSiteData(resp) ==
    IF resp.kind = "json"
    THEN [fatal |-> FALSE, siteData |-> DecodeSiteData(resp.doc)]
    ELSE [fatal |-> TRUE, siteData |-> ZeroSiteData]

----------------------------------------------------------------------------
(* Messages *)

CharKeys == {"a", "q", "r"}

Keys == {"enter", "esc", "ctrl+c", "up", "down", "backspace"} \cup CharKeys

KeyMsg(k) == [type |-> "key", key |-> k]

\* A tea.WindowSizeMsg, reduced to the number of list items the new height
\* leaves room for on one page.
WindowSizeMsg(n) == [type |-> "size", perPage |-> n]

Msgs == {KeyMsg(k) : k \in Keys} \cup {WindowSizeMsg(n) : n \in 1..MaxPerPage}

IsKey(msg, k) == msg.type = "key" /\ msg.key = k

\* The tea.QuitMsg the command tea.Quit produces; the event loop ends on it
\* without calling Update.
QuitMsg == [type |-> "quit"]

\* The case of the switch statements a message falls in: one of the keys
\* they name, any other key, or a window size.
MsgCase(msg) ==
    IF msg.type # "key" THEN [type |-> "size"]
    ELSE IF msg.key \in {"ctrl+c", "enter", "esc", "r"} THEN msg
    ELSE KeyMsg("other")

----------------------------------------------------------------------------
(* textinput.Model *)

CharLimit == 156

\* textinput.Update: a blurred input ignores every message; a focused one
\* appends a typed symbol (up to CharLimit) and deletes backward on backspace.
TextInputUpdate(ti, msg) ==
    IF ~ti.focus \/ msg.type # "key" THEN ti
    ELSE IF msg.key \in CharKeys
         THEN IF Len(ti.value) < CharLimit
              THEN [ti EXCEPT !.value = Append(@, msg.key)] ELSE ti
    ELSE IF msg.key = "backspace" /\ ti.value # <<>>
         THEN [ti EXCEPT !.value = SubSeq(@, 1, Len(@) - 1)]
    ELSE ti

----------------------------------------------------------------------------
(* table.Model *)

\* table's clamp(v, low, high) = min(max(v, low), high)
Clamp(v, low, high) == Min2(Max2(v, low), high)

TableMoveUp(t, n) == [t EXCEPT !.cursor = Clamp(@ - n, 0, Len(t.rows) - 1)]
TableMoveDown(t, n) == [t EXCEPT !.cursor = Clamp(@ + n, 0, Len(t.rows) - 1)]

\* table.Update: a blurred table ignores every message.
TableUpdate(t, msg) ==
    IF ~t.focus \/ msg.type # "key" THEN t
    ELSE IF msg.key = "up" THEN TableMoveUp(t, 1)
    ELSE IF msg.key = "down" THEN TableMoveDown(t, 1)
    ELSE t

\* table.SetRows: the rows are replaced and the cursor stays where it was.
TableSetRows(t, r) == [t EXCEPT !.rows = r]

\* table.SelectedRow: nil (here <<>>) when the cursor is on no row.
TableSelectedRow(t) ==
    IF t.cursor < 0 \/ t.cursor >= Len(t.rows) THEN <<>> ELSE t.rows[t.cursor + 1]

----------------------------------------------------------------------------
(* list.Model with its paginator *)

\* paginator.SetTotalPages as updatePagination calls it.
ListTotalPages(l) ==
    LET n == Max2(1, Len(l.items))
    IN  (n \div l.perPage) + (IF n % l.perPage > 0 THEN 1 ELSE 0)

ListIndex(l) == l.page * l.perPage + l.cursor

\* paginator.ItemsOnPage
ListItemsOnPage(l) ==
    IF Len(l.items) < 1 THEN 0
    ELSE Min2(l.page * l.perPage + l.perPage, Len(l.items)) - l.page * l.perPage

\* list.updatePagination with the page size given: the index is restored and
\* the page is kept in bounds.
ListUpdatePagination(l, perPage) ==
    LET index == ListIndex(l)
        l1 == [l EXCEPT !.perPage = perPage]
        page == index \div perPage
        last == ListTotalPages(l1) - 1
    IN  [l1 EXCEPT !.page = IF page >= last THEN Max2(0, last) ELSE page,
                   !.cursor = index % perPage]

\* ListSetItems adding to the items held.
ListSetItemsAppending(l, items) ==
    ListUpdatePagination([l EXCEPT !.items = @ \o items], l.perPage)

\* list.SetItems
ListSetItems(l, items) == ListUpdatePagination([l EXCEPT !.items = items], l.perPage)

\* list.SetSize
ListSetSize(l, perPage) == ListUpdatePagination(l, perPage)

ListCursorUp(l) ==
    IF l.cursor - 1 < 0 /\ l.page = 0 THEN [l EXCEPT !.cursor = 0]
    ELSE IF l.cursor - 1 >= 0 THEN [l EXCEPT !.cursor = @ - 1]
    ELSE LET l1 == [l EXCEPT !.page = @ - 1]
         IN  [l1 EXCEPT !.cursor = ListItemsOnPage(l1) - 1]

ListCursorDown(l) ==
    LET onPage == ListItemsOnPage(l)
        c == l.cursor + 1
    IN  IF c < onPage THEN [l EXCEPT !.cursor = c]
        ELSE IF l.page # ListTotalPages(l) - 1
             THEN [l EXCEPT !.page = @ + 1, !.cursor = 0]
        ELSE IF c > onPage THEN [l EXCEPT !.cursor = 0]
        ELSE [l EXCEPT !.cursor = onPage - 1]

\* The keys of list.DefaultKeyMap().Quit.
ListDefaultQuitKeys == {"q", "esc"}

\* key.Binding.Unbind leaving the keys of the binding in place.
KeyUnbindNothing(keys) == keys

\* key.Binding.Unbind: the binding loses its keys.
KeyUnbind(keys) == {}

\* list.Update while browsing answers a key of the Quit binding with tea.Quit.
ListQuits(l, msg) == msg.type = "key" /\ msg.key \in l.quitKeys

\* list.Update while browsing: the cursor keys move, and the cursor is then
\* kept within the items of the page, whatever the message was.
ListUpdate(l, msg) ==
    LET l1 == IF IsKey(msg, "up") THEN ListCursorUp(l)
              ELSE IF IsKey(msg, "down") THEN ListCursorDown(l)
              ELSE l
        onPage == ListItemsOnPage(l1)
    IN  IF l1.cursor > onPage - 1 THEN [l1 EXCEPT !.cursor = Max2(0, onPage - 1)]
        ELSE l1

\* list.SelectedItem: nil (here <<>>) when the index is on no item.
ListSelectedItem(l) ==
    LET i == ListIndex(l)
    IN  IF i < 0 \/ Len(l.items) = 0 \/ Len(l.items) <= i THEN <<>>
        ELSE <<l.items[i + 1]>>

----------------------------------------------------------------------------
(* initialModel *)

\* list.New(nil, ..., 0, 0) with li.KeyMap.Quit.Unbind()
setupList ==
    [items |-> <<>>, page |-> 0, cursor |-> 0, perPage |-> 1,
     title |-> <<"List">>, quitKeys |-> KeyUnbind(ListDefaultQuitKeys)]

initialModel(tableRows) ==
    [textInput |-> [value |-> <<>>, focus |-> TRUE],
     table |-> [rows |-> tableRows, cursor |-> 0, focus |-> FALSE],
     list |-> setupList,
     siteData |-> ZeroSiteData,
     locationChosen |-> FALSE,
     locationId |-> <<>>,
     forecastResolution |-> dailyResolution,
     forecastChosen |-> FALSE,
     forecastData |-> ZeroForecastData]

----------------------------------------------------------------------------
(* The outcome of one handler call: the model it returns, or the way the    *)
(* process ends inside it, and the site-data requests it made.              *)

\* Quits: the call returns the model with the command tea.Quit.
Returns(mm, reqs) == [m |-> mm, status |-> "running", req |-> reqs]
Quits(mm) == [m |-> mm, status |-> "quit", req |-> <<>>]
Fatal(mm, reqs) == [m |-> mm, status |-> "fatal", req |-> reqs]
Panics(mm, reqs) == [m |-> mm, status |-> "panic", req |-> reqs]

\* LoadSite without the rebuild of the list.
LoadSiteKeepingItems(mm, resp) ==
    LET reqs == <<[request |-> SiteRequest(mm.locationId, mm.forecastResolution),
                   response |-> resp]>>
        got == getSiteData(resp)
    IN  IF got.fatal THEN Fatal(mm, reqs)
        ELSE Returns([mm EXCEPT !.siteData = got.siteData], reqs)

\* m.siteData = getSiteData(m.locationId, m.forecastResolution);
\* forecasts := getForecastListItems(m); m.list.SetItems(forecasts)
LoadSite(mm, resp) ==
    LET reqs == <<[request |-> SiteRequest(mm.locationId, mm.forecastResolution),
                   response |-> resp]>>
        got == getSiteData(resp)
        m1 == [mm EXCEPT !.siteData = got.siteData]
        built == getForecastListItems(m1.forecastResolution, m1.siteData)
    IN  IF got.fatal THEN Fatal(mm, reqs)
        ELSE IF built.fatal THEN Fatal(m1, reqs)
        ELSE Returns([m1 EXCEPT !.list = ListSetItems(@, built.items)], reqs)

----------------------------------------------------------------------------
(* updateSearch *)

\* FilterRows giving no row for the empty input.
FilterRowsNoneForEmpty(input) ==
    IF Len(input) > 0
    THEN {[i \in 1..Len(r) |-> rows[r[i].OriginalIndex + 1]] :
            r \in SortedRanks(RankFindFold(input, placenames, 1))}
    ELSE {<<>>}

\* The rows the table is given after a key that is neither enter nor esc.
FilterRows(input) ==
    IF Len(input) > 0
    THEN {[i \in 1..Len(r) |-> rows[r[i].OriginalIndex + 1]] :
            r \in SortedRanks(RankFindFold(input, placenames, 1))}
    ELSE {rows}

\* case "enter" with the table focused
SearchChoose(mm, resp) ==
    LET row == TableSelectedRow(mm.table)
        m1 == [mm EXCEPT !.locationChosen = TRUE]
    IN  IF row = <<>> THEN Panics(m1, <<>>)
        ELSE LET m2 == [m1 EXCEPT !.locationId = row[2]]
                 o == LoadSite(m2, resp)
             IN  IF o.status # "running" THEN o
                 ELSE [o EXCEPT !.m.list.title =
                         o.m.siteData.Name \o <<", ">> \o o.m.siteData.Country]

SearchEnter(mm) ==
    IF mm.textInput.focus
    THEN {Returns([mm EXCEPT !.textInput.focus = FALSE, !.table.focus = TRUE], <<>>)}
    ELSE IF mm.table.focus THEN {SearchChoose(mm, resp) : resp \in Responses}
    ELSE {Returns(mm, <<>>)}

\* SearchEsc without the focus of the text input.
SearchEscBlurOnly(mm) ==
    IF mm.table.focus THEN [mm EXCEPT !.table.focus = FALSE] ELSE mm

SearchEsc(mm) ==
    IF mm.table.focus
    THEN [mm EXCEPT !.table.focus = FALSE, !.textInput.focus = TRUE]
    ELSE mm

updateSearch(msg, m0) ==
    LET m1 == [m0 EXCEPT !.textInput = TextInputUpdate(@, msg),
                         !.table = TableUpdate(@, msg)]
    IN  IF IsKey(msg, "enter") THEN SearchEnter(m1)
        ELSE IF IsKey(msg, "esc") THEN {Returns(SearchEsc(m1), <<>>)}
        ELSE IF msg.type = "key"
        THEN {Returns([m1 EXCEPT !.table = TableSetRows(@, r)], <<>>) :
                r \in FilterRows(m1.textInput.value)}
        ELSE {Returns(m1, <<>>)}

----------------------------------------------------------------------------
(* updateLocation *)

\* Position with the two indices exchanged.
PositionSwapped(item) == <<item.forecastIndex, item.periodIndex>>

\* forecastItem.Position
Position(item) == <<item.periodIndex, item.forecastIndex>>

\* case "enter"
LocationEnter(mm) ==
    LET m1 == [mm EXCEPT !.forecastChosen = TRUE]
        sel == ListSelectedItem(m1.list)
    IN  IF sel = <<>> THEN Panics(m1, <<>>)
        ELSE LET pi == Position(sel[1])[1]
                 fi == Position(sel[1])[2]
                 periods == m1.siteData.Periods
             IN  IF pi < 0 \/ pi >= Len(periods) THEN Panics(m1, <<>>)
                 ELSE IF fi < 0 \/ fi >= Len(periods[pi + 1].Forecasts)
                      THEN Panics(m1, <<>>)
                 ELSE Returns(
                        [m1 EXCEPT !.forecastData =
                           getForecastData(m1.forecastResolution,
                                           periods[pi + 1].Forecasts[fi + 1])],
                        <<>>)

\* FlipResolution with both branches giving the three-hourly resolution.
FlipResolutionStuck(r) ==
    IF r = dailyResolution THEN threeHourlyResolution ELSE threeHourlyResolution

\* case "r": the resolution is switched.
FlipResolution(r) ==
    IF r = dailyResolution THEN threeHourlyResolution ELSE dailyResolution

\* LocationToggle storing the new data under the list as it is.
LocationToggleKeepingItems(mm, resp) ==
    LoadSiteKeepingItems([mm EXCEPT !.forecastResolution = FlipResolution(@)], resp)

\* case "r"
LocationToggle(mm, resp) ==
    LoadSite([mm EXCEPT !.forecastResolution = FlipResolution(@)], resp)

\* LocationEsc dropping the loaded data and the items built from it.
LocationEscDiscarding(mm) ==
    [mm EXCEPT !.locationChosen = FALSE, !.siteData = ZeroSiteData,
               !.list.items = <<>>]

\* LocationEsc clearing the query and giving the table every row again.
LocationEscUnfiltering(mm) ==
    [mm EXCEPT !.locationChosen = FALSE, !.textInput.value = <<>>,
               !.table.rows = rows]

\* LocationEsc going back to the resolution the program starts with.
LocationEscResettingResolution(mm) ==
    [mm EXCEPT !.locationChosen = FALSE, !.forecastResolution = dailyResolution]

\* case "esc"
LocationEsc(mm) == [mm EXCEPT !.locationChosen = FALSE]

\* return m, tea.Batch(cmds...): the command the list answered with is run
\* once the handler has returned.
LocationReturn(o, l, msg) ==
    IF o.status = "running" /\ ListQuits(l, msg) THEN [o EXCEPT !.status = "quit"]
    ELSE o

updateLocation(msg, m0) ==
    LET m1 == [m0 EXCEPT !.list = ListUpdate(@, msg)]
        outs == IF IsKey(msg, "enter") THEN {LocationEnter(m1)}
                ELSE IF IsKey(msg, "r")
                     THEN {LocationToggle(m1, resp) : resp \in Responses}
                ELSE IF IsKey(msg, "esc") THEN {Returns(LocationEsc(m1), <<>>)}
                ELSE {Returns(m1, <<>>)}
    IN  {LocationReturn(o, m0.list, msg) : o \in outs}

----------------------------------------------------------------------------
(* updateForecast *)

\* ForecastEsc clearing the location flag as well.
ForecastEscToSearch(mm) ==
    [mm EXCEPT !.forecastChosen = FALSE, !.locationChosen = FALSE]

\* ForecastEsc clearing the other flag.
ForecastEscClearingLocation(mm) == [mm EXCEPT !.locationChosen = FALSE]

\* ForecastEsc dropping the detail record shown.
ForecastEscClearingDetail(mm) ==
    [mm EXCEPT !.forecastChosen = FALSE, !.forecastData = ZeroForecastData]

\* case "esc"
ForecastEsc(mm) == [mm EXCEPT !.forecastChosen = FALSE]

updateForecast(msg, m0) ==
    IF IsKey(msg, "esc") THEN {Returns(ForecastEsc(m0), <<>>)}
    ELSE {Returns(m0, <<>>)}

----------------------------------------------------------------------------
(* model.Update and model.View *)

\* Dispatch with the two tests in the other order.
DispatchLocationFirst(mm) ==
    IF mm.locationChosen THEN "updateLocation"
    ELSE IF mm.forecastChosen THEN "updateForecast"
    ELSE "updateSearch"

\* The handler Update hands the message to.
Dispatch(mm) ==
    IF mm.forecastChosen THEN "updateForecast"
    ELSE IF mm.locationChosen THEN "updateLocation"
    ELSE "updateSearch"

\* The screen View renders.
ActiveView(mm) ==
    IF mm.forecastChosen THEN "ForecastDetail"
    ELSE IF mm.locationChosen THEN "LocationList"
    ELSE "Search"

\* The first switch of Update: a window size is passed on to the list.
Resize(mm, msg) ==
    IF msg.type = "size" THEN [mm EXCEPT !.list = ListSetSize(@, msg.perPage)]
    ELSE mm

\* The letters the queries are typed from.
QueryKeys == {"a", "r"}

\* The typed text is kept within the bound of the model, and is typed from
\* QueryKeys.
Offered(msg) ==
    ~(/\ msg.type = "key" /\ msg.key \in CharKeys
      /\ Dispatch(m) = "updateSearch" /\ m.textInput.focus
      /\ (Len(m.textInput.value) >= MaxQueryLen \/ msg.key \notin QueryKeys))

\* The program's model is replaced when Update returns; when the process
\* ends inside Update the model it held is the last one there is. A tea.Quit
\* returned is a command the event loop has yet to run: the program goes on
\* until its message arrives.
Commit(msg, name, o) ==
    /\ m' = IF o.status \in {"running", "quit"} THEN o.m ELSE m
    /\ status' = IF o.status = "quit" THEN "running" ELSE o.status
    /\ quitCmd' = (quitCmd \/ o.status = "quit")
    /\ req' = o.req
    /\ lastMsg' = MsgCase(msg)
    /\ handler' = name
    /\ UNCHANGED <<placenames, rows, call>>

\* case "ctrl+c": return m, tea.Quit
UpdateQuit(msg) ==
    /\ status = "running"
    /\ IsKey(msg, "ctrl+c")
    /\ Commit(msg, "none", Quits(m))

UpdateSearchScreen(msg) ==
    /\ status = "running" /\ Offered(msg)
    /\ ~IsKey(msg, "ctrl+c")
    /\ Dispatch(Resize(m, msg)) = "updateSearch"
    /\ \E o \in updateSearch(msg, Resize(m, msg)) : Commit(msg, "updateSearch", o)

UpdateLocationScreen(msg) ==
    /\ status = "running"
    /\ ~IsKey(msg, "ctrl+c")
    /\ Dispatch(Resize(m, msg)) = "updateLocation"
    /\ \E o \in updateLocation(msg, Resize(m, msg)) : Commit(msg, "updateLocation", o)

UpdateForecastScreen(msg) ==
    /\ status = "running"
    /\ ~IsKey(msg, "ctrl+c")
    /\ Dispatch(Resize(m, msg)) = "updateForecast"
    /\ \E o \in updateForecast(msg, Resize(m, msg)) : Commit(msg, "updateForecast", o)

\* The message of a tea.Quit returned earlier arrives: p.Run returns and the
\* program ends, Update not being called.
QuitMsgArrives ==
    /\ status = "running" /\ quitCmd
    /\ status' = "quit"
    /\ lastMsg' = QuitMsg
    /\ handler' = "none"
    /\ req' = <<>>
    /\ UNCHANGED <<m, placenames, rows, quitCmd, call>>

\* No call is made on its own while the program runs.
NoCall == [op |-> "none"]

\* The zero value of the model struct: what there is when initialModel has
\* not returned.
ZeroModel ==
    [textInput |-> [value |-> <<>>, focus |-> FALSE],
     table |-> [rows |-> <<>>, cursor |-> 0, focus |-> FALSE],
     list |-> [items |-> <<>>, page |-> 0, cursor |-> 0, perPage |-> 0,
               title |-> <<>>, quitKeys |-> {}],
     siteData |-> ZeroSiteData,
     locationChosen |-> FALSE,
     locationId |-> <<>>,
     forecastResolution |-> <<>>,
     forecastChosen |-> FALSE,
     forecastData |-> ZeroForecastData]

\* What data.Fetch answers initialModel with: a body that decodes to one of
\* the location lists (to none when it does not decode), or nil.
SitelistFetches ==
    {[nil |-> FALSE, locs |-> l] : l \in SiteLists}
    \cup {[nil |-> TRUE, locs |-> <<>>]}

\* main: initialModel ends the process in log.Fatal when the sitelist could
\* not be fetched, and else builds the model from the rows extracted.
Init ==
    /\ \E res \in SitelistFetches :
         /\ placenames = IF res.nil THEN <<>> ELSE ExtractPlacenames(res.locs)
         /\ rows \in (IF res.nil THEN {<<>>} ELSE ExtractRows(res.locs))
         /\ m = IF res.nil THEN ZeroModel ELSE initialModel(rows)
         /\ status = IF res.nil THEN "fatal" ELSE "running"
    /\ quitCmd = FALSE
    /\ lastMsg = [type |-> "none"]
    /\ handler = "none"
    /\ req = <<>>
    /\ call = NoCall

NextUpdate ==
    \E msg \in Msgs :
        \/ UpdateQuit(msg)
        \/ UpdateSearchScreen(msg)
        \/ UpdateLocationScreen(msg)
        \/ UpdateForecastScreen(msg)

Next ==
    \/ NextUpdate
    \/ QuitMsgArrives

Spec == Init /\ [][Next]_vars

\* The command goroutine of the event loop runs tea.Quit and sends its message:
\* while the program runs with the command returned, the message does arrive.
FairSpec == Spec /\ WF_vars(QuitMsgArrives)

----------------------------------------------------------------------------
(* getForecastData and getForecastListItems called on their own, on        *)
(* data.Forecast and data.SiteData values written as literals              *)

Resolutions == {dailyResolution, threeHourlyResolution}

\* The symbols the time labels are written in.
LabelSymbols == {"0", "1", "3", "8", "9", "-", "x"}

\* The time labels: "Day", "Night" and every string of at most MaxLabelLen
\* symbols.
Labels ==
    {DayLabel, NightLabel}
    \cup UNION {[1..k -> LabelSymbols] : k \in 0..MaxLabelLen}

\* A data.Forecast literal: every field set, UV of Day and of Hourly too,
\* each value naming its field.
ForecastValue(time) ==
    [DecodeForecast(RawForecast(time, <<"7">>, "1")) EXCEPT
        !.Day.UV = <<"U.Day">>, !.Hourly.UV = <<"U.Hourly">>]

\* The period dates of the literals.
PeriodDates == {<<"2024-01-01Z">>, <<"2024-01-02Z">>}

\* data.Period literals of at most MaxForecasts forecasts.
PeriodValues ==
    {[Date |-> d, Forecasts |-> fs] :
        d \in PeriodDates,
        fs \in UNION {[1..k -> {ForecastValue(DayLabel),
                                ForecastValue(<<"1", "8", "0">>)}] :
                        k \in 0..MaxForecasts}}

\* data.SiteData literals: one period of one forecast with any label, or at
\* most MaxPeriods periods.
SiteDataValues ==
    {[Name |-> <<"Ara">>, Country |-> <<"EN">>, Periods |-> ps] :
        ps \in {<<[Date |-> <<"2024-01-01Z">>,
                   Forecasts |-> <<ForecastValue(l)>>]>> : l \in Labels}
              \cup UNION {[1..k -> PeriodValues] : k \in 0..MaxPeriods}}

InitCall ==
    /\ placenames = <<>>
    /\ rows = <<>>
    /\ m = initialModel(rows)
    /\ status = "running"
    /\ quitCmd = FALSE
    /\ lastMsg = [type |-> "none"]
    /\ handler = "none"
    /\ req = <<>>
    /\ \/ \E res \in Resolutions, l \in Labels :
            call = [op |-> "getForecastData", done |-> FALSE,
                    resolution |-> res, arg |-> ForecastValue(l), out |-> <<>>]
       \/ \E res \in Resolutions, sd \in SiteDataValues :
            call = [op |-> "getForecastListItems", done |-> FALSE,
                    resolution |-> res, arg |-> sd, out |-> <<>>]

CallGetForecastData ==
    /\ call.op = "getForecastData" /\ ~call.done
    /\ call' = [call EXCEPT !.done = TRUE,
                            !.out = getForecastData(call.resolution, call.arg)]
    /\ UNCHANGED <<m, placenames, rows, status, quitCmd, lastMsg, handler, req>>

\* The call returns the items, or ends the process in log.Fatal.
CallGetForecastListItems ==
    /\ call.op = "getForecastListItems" /\ ~call.done
    /\ LET built == getForecastListItems(call.resolution, call.arg)
       IN  /\ call' = [call EXCEPT !.done = TRUE, !.out = built.items]
           /\ status' = IF built.fatal THEN "fatal" ELSE "running"
    /\ UNCHANGED <<m, placenames, rows, quitCmd, lastMsg, handler, req>>

\* The names of the location literals.
NameValues ==
    {<<"a">>, <<"A">>, <<"r">>, <<"a", "r">>, <<"A", "r">>, <<"r", "a">>}

\* Sitelist literals of at most MaxLocations locations, the i-th with id i.
SiteListValues ==
    UNION {{[i \in 1..k |-> Loc(ns[i], <<Digits[i + 1]>>, <<"se">>)] :
              ns \in [1..k -> NameValues]} : k \in 0..MaxLocations}

\* The queries the filter is called with.
QueryValues == UNION {[1..k -> {"a", "r", "A"}] : k \in 0..MaxQueryLen}

\* The bodies served to data.Fetch, as bytes.
BodyValues == UNION {[1..k -> {0, 123, 255}] : k \in 0..MaxBodyLen}

\* Calls that start from the package variables as declared: no name, no row.
InitCallRows ==
    /\ placenames = <<>>
    /\ rows = <<>>
    /\ m = initialModel(rows)
    /\ status = "running"
    /\ quitCmd = FALSE
    /\ lastMsg = [type |-> "none"]
    /\ handler = "none"
    /\ req = <<>>
    /\ \/ \E locs \in SiteListValues :
            call = [op |-> "extractRows", done |-> FALSE, arg |-> locs,
                    out |-> <<>>]
       \/ \E t \in Transports(BodyValues) :
            call = [op |-> "Fetch", done |-> FALSE, arg |-> t, out |-> NilBytes]

\* extractRows: the names and the rows are appended to the package variables,
\* which are then sorted, each on its own.
CallExtractRows ==
    /\ call.op = "extractRows" /\ ~call.done
    /\ placenames' = ExtractPlacenames(call.arg)
    /\ rows' \in ExtractRows(call.arg)
    /\ call' = [call EXCEPT !.done = TRUE, !.out = rows']
    /\ UNCHANGED <<m, status, quitCmd, lastMsg, handler, req>>

\* The default case of updateSearch on an input: the rows handed to SetRows.
CallFilterRows ==
    /\ call.op = "extractRows" /\ call.done
    /\ \E input \in QueryValues : \E r \in FilterRows(input) :
          call' = [op |-> "FilterRows", done |-> TRUE, arg |-> input, out |-> r]
    /\ UNCHANGED <<m, placenames, rows, status, quitCmd, lastMsg, handler, req>>

CallFetch ==
    /\ call.op = "Fetch" /\ ~call.done
    /\ call' = [call EXCEPT !.done = TRUE, !.out = Fetch(call.arg)]
    /\ UNCHANGED <<m, placenames, rows, status, quitCmd, lastMsg, handler, req>>

NextCall ==
    \/ CallGetForecastData
    \/ CallGetForecastListItems
    \/ CallExtractRows
    \/ CallFilterRows
    \/ CallFetch

InitCalls == InitCall \/ InitCallRows

CallSpec == InitCalls /\ [][NextCall]_vars

----------------------------------------------------------------------------
(* Vocabulary of the properties *)

HandlerOf(view) ==
    CASE view = "Search" -> "updateSearch"
      [] view = "LocationList" -> "updateLocation"
      [] view = "ForecastDetail" -> "updateForecast"

\* The step is an Update call, made while the program runs.
UpdateCall == status = "running" /\ lastMsg' # QuitMsg

\* The step is an Update call, made while the program runs, with key k.
KeyStep(k) == status = "running" /\ IsKey(lastMsg', k)

\* The (periodIndex, forecastIndex) pairs of the loaded periods, in
\* period-then-forecast order.
RECURSIVE PairsFrom(_, _)
PairsFrom(periods, p) ==
    IF p >= Len(periods) THEN <<>>
    ELSE [f \in 1..Len(periods[p + 1].Forecasts) |-> <<p, f - 1>>]
         \o PairsFrom(periods, p + 1)

InRange(item, periods) ==
    /\ 0 <= item.periodIndex /\ item.periodIndex < Len(periods)
    /\ 0 <= item.forecastIndex
    /\ item.forecastIndex < Len(periods[item.periodIndex + 1].Forecasts)

FetchFailed(log) == log # <<>> /\ log[1].response.kind # "json"

----------------------------------------------------------------------------
(* C1 *)

\* C1, as claimed: every Update call runs exactly one screen handler, the
\* one of the active screen. Ctrl+C returns before the dispatch and runs none.
C1_EveryEventRunsTheActiveHandler ==
    [][UpdateCall => handler' = HandlerOf(ActiveView(m))]_vars

\* What a handler of another screen would change stays as it was.
C1_Frame ==
    /\ ActiveView(m) = "Search" =>
         /\ m'.forecastChosen = m.forecastChosen
         /\ m'.forecastData = m.forecastData
         /\ m'.forecastResolution = m.forecastResolution
    /\ ActiveView(m) = "LocationList" =>
         /\ m'.textInput = m.textInput
         /\ m'.table = m.table
    /\ ActiveView(m) = "ForecastDetail" =>
         /\ m'.textInput = m.textInput
         /\ m'.table = m.table
         /\ m'.locationChosen = m.locationChosen
         /\ m'.locationId = m.locationId
         /\ m'.forecastResolution = m.forecastResolution
         /\ m'.siteData = m.siteData
         /\ m'.forecastData = m.forecastData
         /\ m'.list.items = m.list.items
         /\ req' = <<>>

\* C1, amended: every Update call other than Ctrl+C runs exactly one screen
\* handler, the one of the active screen, and the state only another screen's
\* handler writes is unchanged; Ctrl+C runs no handler.
C1_ActiveHandlerOnly ==
    [][UpdateCall =>
         /\ handler' = IF IsKey(lastMsg', "ctrl+c") THEN "none"
                       ELSE HandlerOf(ActiveView(m))
         /\ C1_Frame]_vars

\* An Update call was handled in ForecastDetail, where both flags are set.
C1_Witness ==
    /\ handler = "updateForecast" /\ lastMsg.type = "key"
    /\ m.forecastChosen /\ m.locationChosen

----------------------------------------------------------------------------
(* C2 *)

NavEdges ==
    {<<"Search", "LocationList">>, <<"LocationList", "ForecastDetail">>,
     <<"LocationList", "Search">>, <<"ForecastDetail", "LocationList">>}

\* C2: the program, once started, shows Search, and the active screen changes
\* only along Search->LocationList, LocationList->ForecastDetail,
\* LocationList->Search and ForecastDetail->LocationList.
C2_NavigationEdges ==
    /\ status = "running" => ActiveView(m) = "Search"
    /\ [][\/ ActiveView(m') = ActiveView(m)
          \/ <<ActiveView(m), ActiveView(m')>> \in NavEdges]_vars

\* Esc in ForecastDetail has led back to LocationList.
C2_Witness ==
    /\ ActiveView(m) = "LocationList"
    /\ handler = "updateForecast" /\ IsKey(lastMsg, "esc")

----------------------------------------------------------------------------
(* C3 *)

\* C3: Enter in Search with no visible row is a no-op: the screen stays
\* Search, nothing is fetched and the program keeps running.
C3_EnterOnNoRowsIsNoOp ==
    [][(KeyStep("enter") /\ ActiveView(m) = "Search" /\ m.table.rows = <<>>) =>
         /\ status' = "running"
         /\ ActiveView(m') = "Search"
         /\ req' = <<>>]_vars

----------------------------------------------------------------------------
(* C4 *)

\* C4: Enter in LocationList with an empty item list is a no-op: the screen
\* stays LocationList, no item is selected and the program keeps running.
C4_EnterOnNoItemsIsNoOp ==
    [][(KeyStep("enter") /\ ActiveView(m) = "LocationList" /\ m.list.items = <<>>) =>
         /\ status' = "running"
         /\ ActiveView(m') = "LocationList"
         /\ m'.forecastData = m.forecastData]_vars

----------------------------------------------------------------------------
(* C5 *)

\* C5: when the fetch of a transition fails, nothing of the transition is
\* applied and the program keeps accepting input.
C5_FailedFetchAbortsTransition ==
    [][(status = "running" /\ FetchFailed(req')) =>
         /\ status' = "running"
         /\ m' = m]_vars

----------------------------------------------------------------------------
(* C6 *)

\* C6: the cursor of the table is always on a visible row, and Enter on the
\* focused table with a visible row requests the data of the row under the
\* cursor at the current resolution and, the data loaded, shows LocationList.
C6_EnterLoadsHighlightedRow ==
    [][(KeyStep("enter") /\ ActiveView(m) = "Search" /\ m.table.focus
           /\ Len(m.table.rows) >= 1) =>
         /\ m.table.cursor \in 0..(Len(m.table.rows) - 1)
         /\ status' # "panic"
         /\ Len(req') = 1
         /\ req'[1].request =
              SiteRequest(m.table.rows[m.table.cursor + 1][2], m.forecastResolution)
         /\ status' = "running" => ActiveView(m') = "LocationList"]_vars

----------------------------------------------------------------------------
(* C7 *)

\* C7: Enter in LocationList on an item shows ForecastDetail, and the detail
\* record is the flattening, at the current resolution, of the forecast the
\* selected item points at in the loaded data.
C7_EnterShowsSelectedForecast ==
    [][(KeyStep("enter") /\ ActiveView(m) = "LocationList" /\ m.list.items # <<>>) =>
         /\ status' = "running"
         /\ ActiveView(m') = "ForecastDetail"
         /\ LET l == m'.list
                item == l.items[l.page * l.perPage + l.cursor + 1]
                raw == m.siteData.Periods[item.periodIndex + 1]
                                 .Forecasts[item.forecastIndex + 1]
            IN  /\ m'.forecastData = getForecastData(m.forecastResolution, raw)
                /\ m'.siteData = m.siteData
                /\ m'.forecastResolution = m.forecastResolution
                /\ l.items = m.list.items]_vars

\* A forecast other than the first of the list is shown in ForecastDetail.
C7_Witness ==
    /\ ActiveView(m) = "ForecastDetail" /\ IsKey(lastMsg, "enter")
    /\ ListIndex(m.list) >= 1
    /\ m.forecastData.Time = NightLabel

----------------------------------------------------------------------------
(* C8 *)

\* C8: a resolution toggle handled in LocationList flips the resolution,
\* requests the same location at the new resolution, holds the data served
\* and the items built from it, and stays in LocationList.
C8_ToggleReloads ==
    [][(KeyStep("r") /\ ActiveView(m) = "LocationList" /\ status' = "running") =>
         /\ m'.forecastResolution # m.forecastResolution
         /\ m'.forecastResolution \in {dailyResolution, threeHourlyResolution}
         /\ m'.locationId = m.locationId
         /\ Len(req') = 1
         /\ req'[1].request = SiteRequest(m.locationId, m'.forecastResolution)
         /\ m'.siteData = DecodeSiteData(req'[1].response.doc)
         /\ m'.list.items =
              getForecastListItems(m'.forecastResolution, m'.siteData).items
         /\ ActiveView(m') = "LocationList"]_vars

\* A toggle to the three-hourly resolution has loaded three-hourly items.
C8_Witness ==
    /\ IsKey(lastMsg, "r") /\ handler = "updateLocation" /\ status = "running"
    /\ m.forecastResolution = threeHourlyResolution
    /\ Len(m.list.items) = 3

----------------------------------------------------------------------------
(* C9 *)

\* C9: after a resolution toggle the item list has one item per forecast of
\* the newly loaded data, in order, each pointing at its own forecast and
\* titled from it: nothing of the previous list remains.
C9_ToggleReplacesItems ==
    [][(KeyStep("r") /\ ActiveView(m) = "LocationList" /\ status' = "running") =>
         LET periods == m'.siteData.Periods
             pairs == PairsFrom(periods, 0)
             items == m'.list.items
         IN  /\ Len(items) = Len(pairs)
             /\ \A k \in 1..Len(items) :
                  /\ <<items[k].periodIndex, items[k].forecastIndex>> = pairs[k]
                  /\ items[k] =
                       ForecastItem(m'.forecastResolution,
                                    ParseDate(periods[pairs[k][1] + 1].Date).text,
                                    periods[pairs[k][1] + 1].Forecasts[pairs[k][2] + 1],
                                    pairs[k][1], pairs[k][2]).item]_vars

\* A toggle back to the daily resolution has replaced the items of the
\* three-hourly list by the three items of day and night data.
C9_Witness ==
    /\ IsKey(lastMsg, "r") /\ handler = "updateLocation" /\ status = "running"
    /\ m.forecastResolution = dailyResolution
    /\ Len(m.list.items) = 3
    /\ m.siteData.Periods[1].Forecasts[2].Time = NightLabel

----------------------------------------------------------------------------
(* C10 *)

\* C10: in every reachable state every item of the list points at a forecast
\* of the loaded data.
C10_ItemsIndexLoadedData ==
    \A k \in 1..Len(m.list.items) : InRange(m.list.items[k], m.siteData.Periods)

\* The data has been fetched again, and the list has items of two periods.
C10_Witness ==
    /\ IsKey(lastMsg, "r") /\ req # <<>> /\ status = "running"
    /\ \E k \in 1..Len(m.list.items) : m.list.items[k].periodIndex = 1

----------------------------------------------------------------------------
(* C11 *)

\* C11, as claimed: Esc in LocationList shows Search and the model then holds
\* no data of the location left: no site data and no list items.
C11_BackDiscardsData ==
    [][(KeyStep("esc") /\ ActiveView(m) = "LocationList") =>
         /\ ActiveView(m') = "Search"
         /\ m'.siteData = ZeroSiteData
         /\ m'.list.items = <<>>]_vars

\* C11, amended: Esc in LocationList shows Search, requests nothing and
\* leaves the site data and the list items in the model; and every Enter in
\* Search that shows LocationList has requested the location of the row
\* under the cursor, and the model holds the data of that response and the
\* items built from it, whatever it held before.
C11_BackKeepsDataNextConfirmFetches ==
    [][/\ (KeyStep("esc") /\ ActiveView(m) = "LocationList") =>
            /\ status' = "running"
            /\ ActiveView(m') = "Search"
            /\ req' = <<>>
            /\ m'.siteData = m.siteData
            /\ m'.list.items = m.list.items
       /\ (KeyStep("enter") /\ ActiveView(m) = "Search"
              /\ status' = "running" /\ ActiveView(m') = "LocationList") =>
            /\ Len(req') = 1
            /\ req'[1].request = SiteRequest(m'.locationId, m.forecastResolution)
            /\ m'.locationId = TableSelectedRow(m.table)[2]
            /\ m'.siteData = DecodeSiteData(req'[1].response.doc)
            /\ m'.list.items =
                 getForecastListItems(m'.forecastResolution, m'.siteData).items]_vars

\* Esc in LocationList has led back to Search while forecasts are loaded.
C11_Witness ==
    /\ ActiveView(m) = "Search" /\ status = "running"
    /\ handler = "updateLocation" /\ IsKey(lastMsg, "esc")
    /\ m.siteData.Periods # <<>> /\ m.list.items # <<>>

----------------------------------------------------------------------------
(* C12 *)

\* C12, as claimed: after Esc in LocationList, reached with a query typed,
\* the table of Search shows every row in stored order.
C12_BackShowsAllRows ==
    [][(KeyStep("esc") /\ ActiveView(m) = "LocationList"
           /\ m.textInput.value # <<>>) =>
         /\ ActiveView(m') = "Search"
         /\ m'.table.rows = rows]_vars

\* C12, amended: Esc in LocationList shows Search as it was left: the query
\* is still in the text input, the table is still focused and still shows
\* the rows the filter gave for that query, with the cursor where it was.
C12_BackShowsRowsAsLeft ==
    [][(KeyStep("esc") /\ ActiveView(m) = "LocationList") =>
         /\ ActiveView(m') = "Search"
         /\ m'.textInput = m.textInput
         /\ m'.table = m.table
         /\ m'.table.focus /\ ~m'.textInput.focus
         /\ m'.table.rows \in FilterRows(m'.textInput.value)]_vars

\* Back in Search after Esc in LocationList, with a query that one of the
\* two names does not match: the table shows one row of the two.
C12_Witness ==
    /\ ActiveView(m) = "Search" /\ status = "running"
    /\ handler = "updateLocation" /\ IsKey(lastMsg, "esc")
    /\ m.textInput.value # <<>>
    /\ Len(m.table.rows) = 1 /\ Len(rows) = 2

----------------------------------------------------------------------------
(* C13 *)

\* C13: Esc in ForecastDetail shows LocationList and does nothing else: the
\* model is the one held before with forecastChosen cleared, and nothing is
\* requested.
C13_ForecastBackOnly ==
    [][(KeyStep("esc") /\ ActiveView(m) = "ForecastDetail") =>
         /\ status' = "running"
         /\ ActiveView(m') = "LocationList"
         /\ m' = [m EXCEPT !.forecastChosen = FALSE]
         /\ req' = <<>>]_vars

\* Esc in ForecastDetail has led back to a LocationList of three-hourly
\* items, the detail record still held.
C13_Witness ==
    /\ ActiveView(m) = "LocationList" /\ status = "running"
    /\ handler = "updateForecast" /\ IsKey(lastMsg, "esc")
    /\ m.forecastResolution = threeHourlyResolution
    /\ m.forecastData # ZeroForecastData /\ m.list.items # <<>>

----------------------------------------------------------------------------
(* C14 *)

\* Ctrl+C is answered by Update without a screen handler, a request or a
\* change of the model, and no other message is answered with tea.Quit: Esc
\* and q in LocationList are not.
C14_QuitOnlyOnCtrlC ==
    /\ IsKey(lastMsg', "ctrl+c") =>
         /\ handler' = "none" /\ req' = <<>> /\ m' = m
         /\ quitCmd'
    /\ (quitCmd' /\ ~quitCmd) => IsKey(lastMsg', "ctrl+c")
    /\ status' = "quit" => quitCmd

\* C14, as claimed: Ctrl+C ends the program with nothing else done: once
\* Ctrl+C has been handled no screen handler runs, nothing is requested and
\* the model stays as it is; and only Ctrl+C ends the program.
C14_CtrlCEndsAtOnce ==
    [][status = "running" =>
         /\ C14_QuitOnlyOnCtrlC
         /\ quitCmd => (handler' = "none" /\ req' = <<>> /\ m' = m)]_vars

\* C14, amended: Ctrl+C makes Update return tea.Quit without running a screen
\* handler, requesting anything or changing the model, and the program then
\* ends, when the quit message arrives or in a handler run before it; no
\* other message makes Update answer with tea.Quit.
C14_OnlyCtrlCQuits ==
    /\ [][status = "running" => C14_QuitOnlyOnCtrlC]_vars
    /\ (quitCmd ~> status # "running")

\* The quit message has ended the program in LocationList, the resolution
\* having been toggled after Ctrl+C was handled.
C14_Witness ==
    /\ status = "quit" /\ quitCmd /\ lastMsg = QuitMsg
    /\ ActiveView(m) = "LocationList" /\ m.list.items # <<>>
    /\ m.forecastResolution = threeHourlyResolution

----------------------------------------------------------------------------
(* Vocabulary of the properties on getForecastData and getForecastListItems *)

\* A numeric label: one or more decimal digits.
IsNumeric(label) == label # <<>> /\ \A i \in 1..Len(label) : IsDigit(label[i])

\* The number a numeric label writes.
RECURSIVE NumeralValue(_)
NumeralValue(label) ==
    IF label = <<>> THEN 0
    ELSE NumeralValue(SubSeq(label, 1, Len(label) - 1)) * 10
         + DigitVal(label[Len(label)])

\* The record o has the five shape fields of part.
PopulatedFrom(o, part) ==
    /\ o.Precipitation = part.Precipitation /\ o.Humidity = part.Humidity
    /\ o.GustSpeed = part.GustSpeed /\ o.Temperature = part.Temperature
    /\ o.FeelsLikeTemp = part.FeelsLikeTemp

\* The record o has the common fields of the forecast f.
CommonFrom(o, f) ==
    /\ o.Time = f.Time /\ o.WeatherCode = f.WeatherCode
    /\ o.WindDirection = f.WindDirection /\ o.WindSpeed = f.WindSpeed
    /\ o.Visibility = f.Visibility

\* A Night part no field of which is a field of the literals.
OtherNight ==
    [Precipitation |-> <<"other">>, Humidity |-> <<"other">>,
     GustSpeed |-> <<"other">>, Temperature |-> <<"other">>,
     FeelsLikeTemp |-> <<"other">>]

\* A getForecastData call has returned.
Normalized == call.op = "getForecastData" /\ call.done

\* A getForecastListItems call has been made on one forecast.
ListedOne ==
    /\ call.op = "getForecastListItems" /\ call.done
    /\ Len(call.arg.Periods) = 1 /\ Len(call.arg.Periods[1].Forecasts) = 1

RECURSIVE ForecastCount(_)
ForecastCount(periods) ==
    IF periods = <<>> THEN 0
    ELSE Len(Head(periods).Forecasts) + ForecastCount(Tail(periods))

\* Some forecast of the data has a label strconv.Atoi does not parse.
HasUnparsedLabel(siteData) ==
    \E p \in 1..Len(siteData.Periods) :
        \E f \in 1..Len(siteData.Periods[p].Forecasts) :
            ~Atoi(siteData.Periods[p].Forecasts[f].Time).ok

----------------------------------------------------------------------------
(* C15 *)

\* C15: getForecastData takes uv, precipitation, humidity, gust speed,
\* temperature and feels-like temperature from the Day fields under
\* daily/"Day", whatever the Night fields hold; from the Night fields, with
\* an empty uv, under daily/"Night"; from the Hourly fields under the
\* three-hourly resolution with a numeric label; and copies the weather code,
\* wind direction, wind speed and visibility in all three cases.
C15_NormalizationSelectsFields ==
    Normalized =>
      LET f == call.arg
          o == call.out
          res == call.resolution
      IN  /\ (res = dailyResolution /\ f.Time = DayLabel) =>
                /\ CommonFrom(o, f) /\ PopulatedFrom(o, f.Day) /\ o.UV = f.Day.UV
                /\ getForecastData(res, [f EXCEPT !.Night = OtherNight]) = o
          /\ (res = dailyResolution /\ f.Time = NightLabel) =>
                /\ CommonFrom(o, f) /\ PopulatedFrom(o, f.Night) /\ o.UV = <<>>
          /\ (res = threeHourlyResolution /\ IsNumeric(f.Time)) =>
                /\ CommonFrom(o, f) /\ PopulatedFrom(o, f.Hourly)
                /\ o.UV = f.Hourly.UV

\* A "Night" forecast has been normalized under the daily resolution.
C15_Witness ==
    /\ Normalized /\ call.resolution = dailyResolution
    /\ call.arg.Time = NightLabel
    /\ call.out.Temperature = <<"Nm", "1">> /\ call.out.UV = <<>>

----------------------------------------------------------------------------
(* C16 *)

\* C16: under the daily resolution getForecastData returns no record for a
\* forecast whose label is neither "Day" nor "Night": in particular none
\* populated from the fields of another shape.
C16_DailyUnknownLabelFails ==
    (/\ Normalized /\ call.resolution = dailyResolution
     /\ call.arg.Time \notin {DayLabel, NightLabel}) =>
      /\ ~PopulatedFrom(call.out, call.arg.Hourly)
      /\ ~PopulatedFrom(call.out, call.arg.Day)
      /\ ~PopulatedFrom(call.out, call.arg.Night)

----------------------------------------------------------------------------
(* C17 *)

\* C17: when data served for the three-hourly resolution holds a label that
\* is not numeric, the load is recoverable: the program keeps running, on the
\* screen it was on or the one before.
C17_UnparsedLabelIsRecoverable ==
    [][(/\ status = "running" /\ Len(req') = 1
        /\ req'[1].request.res = threeHourlyResolution
        /\ req'[1].response.kind = "json"
        /\ HasUnparsedLabel(DecodeSiteData(req'[1].response.doc))) =>
         /\ status' = "running"
         /\ ActiveView(m') \in {ActiveView(m), "Search"}]_vars

----------------------------------------------------------------------------
(* C18 *)

\* C18: the time shown in the title of an item is the label itself under the
\* daily resolution ("Day" or "Night"); under the three-hourly resolution,
\* for a numeric label of m minutes past midnight (m < 1440), it is the hour
\* m div 60 in two digits, zero-padded, followed by ":00".
C18_DisplayTime ==
    ListedOne =>
      LET label == call.arg.Periods[1].Forecasts[1].Time
          res == call.resolution
          h == NumeralValue(label) \div 60
          date == ParseDate(call.arg.Periods[1].Date).text
      IN  /\ (res = dailyResolution /\ label \in {DayLabel, NightLabel}) =>
                /\ status = "running"
                /\ call.out[1].title = date \o <<" (">> \o label \o <<")">>
          /\ (/\ res = threeHourlyResolution /\ IsNumeric(label)
              /\ NumeralValue(label) < 1440) =>
                /\ status = "running"
                /\ call.out[1].title =
                     date \o <<" (">>
                     \o <<Digits[(h \div 10) + 1], Digits[(h % 10) + 1]>>
                     \o <<":", "0", "0">> \o <<")">>

\* The label "139", which is not a whole number of hours, is shown as 02:00.
C18_Witness ==
    /\ ListedOne /\ call.resolution = threeHourlyResolution
    /\ call.arg.Periods[1].Forecasts[1].Time = <<"1", "3", "9">>
    /\ call.out[1].title =
         <<"Mon, 01 Jan 2024", " (", "0", "2", ":", "0", "0", ")">>

----------------------------------------------------------------------------
(* C19 *)

\* C19: the items getForecastListItems returns are one per forecast, as many
\* as the periods have forecasts in all, and the k-th item carries the period
\* index and the forecast index of the k-th forecast in period-then-forecast
\* order, so that the items of a period precede those of the next.
C19_OneItemPerForecastInOrder ==
    (call.op = "getForecastListItems" /\ call.done /\ status = "running") =>
      LET periods == call.arg.Periods
          pairs == PairsFrom(periods, 0)
          items == call.out
      IN  /\ Len(items) = ForecastCount(periods)
          /\ Len(items) = Len(pairs)
          /\ \A k \in 1..Len(items) :
                <<items[k].periodIndex, items[k].forecastIndex>> = pairs[k]
          /\ \A j, k \in 1..Len(items) :
                j < k => items[j].periodIndex <= items[k].periodIndex

\* Two periods, of one and of two forecasts, have been listed.
C19_Witness ==
    /\ call.op = "getForecastListItems" /\ call.done /\ status = "running"
    /\ Len(call.arg.Periods) = 2
    /\ Len(call.arg.Periods[1].Forecasts) = 1
    /\ Len(call.arg.Periods[2].Forecasts) = 2
    /\ Len(call.out) = 3 /\ call.out[3].forecastIndex = 1

----------------------------------------------------------------------------
(* C20 *)

\* C20: with the data served for a location and a resolution staying the
\* same, loading again what is loaded gives an item list of the same length
\* and the same items; and two resolution toggles in LocationList, the second
\* served what the list was loaded from, give back the resolution and an item
\* list equal to the one before the first.
C20_LoadsAreIdempotent ==
    (status = "running" /\ ActiveView(m) = "LocationList") =>
      \A here \in Responses :
        (here.kind = "json" /\ DecodeSiteData(here.doc) = m.siteData) =>
          LET again == LoadSite(m, here)
          IN  /\ again.status = "running"
              /\ Len(again.m.list.items) = Len(m.list.items)
              /\ again.m.list.items = m.list.items
              /\ \A o1 \in updateLocation(KeyMsg("r"), m) :
                   o1.status = "running" =>
                     \A o2 \in updateLocation(KeyMsg("r"), o1.m) :
                       o2.req[1].response = here =>
                         /\ o2.status = "running"
                         /\ o2.m.forecastResolution = m.forecastResolution
                         /\ o2.m.list.items = m.list.items

\* Two toggles have led back to the daily resolution and to the daily items
\* of the data served for it.
C20_Witness ==
    /\ ActiveView(m) = "LocationList" /\ status = "running"
    /\ IsKey(lastMsg, "r") /\ m.forecastResolution = dailyResolution
    /\ m.siteData = DecodeSiteData(DocDaily)
    /\ Len(m.list.items) = 3
    /\ m.list.items[2].title =
         <<"Mon, 01 Jan 2024", " (", "N", "i", "g", "h", "t", ")">>

----------------------------------------------------------------------------
(* C21 *)

\* C21: a load that is served data of zero periods fails: the program does
\* not show LocationList on an empty item list.
C21_ZeroPeriodsIsAFailure ==
    [][(/\ status = "running" /\ Len(req') = 1
        /\ req'[1].response.kind = "json"
        /\ DecodeSiteData(req'[1].response.doc).Periods = <<>>) =>
         ~(/\ status' = "running"
           /\ ActiveView(m') = "LocationList"
           /\ m'.list.items = <<>>)]_vars

----------------------------------------------------------------------------
(* C22 *)

\* C22: no Update call changes the stored rows or the stored names, whatever
\* the queries typed; and a key filtered in Search with the query empty
\* gives the table every stored row in stored order.
C22_FilterKeepsStoredRows ==
    [][status = "running" =>
         /\ rows' = rows
         /\ placenames' = placenames
         /\ (/\ handler' = "updateSearch" /\ IsKey(lastMsg', "other")
             /\ m'.textInput.value = <<>>) =>
              m'.table.rows = rows]_vars

\* A key has been filtered with the query empty and the text input focused
\* again, the table having been focused and moved before: it shows both rows.
C22_Witness ==
    /\ status = "running" /\ handler = "updateSearch" /\ IsKey(lastMsg, "other")
    /\ m.textInput.value = <<>> /\ m.textInput.focus
    /\ Len(rows) = 2 /\ m.table.rows = rows
    /\ m.table.cursor = 1

----------------------------------------------------------------------------
(* Vocabulary of the properties on the stored rows and their filter *)

\* The same letter, in either case.
SameLetter(c, d) ==
    c = d \/ {c, d} = {"a", "A"} \/ {c, d} = {"r", "R"}

\* The symbols of query occur in name, in order, whatever their case.
OccursIn(query, name) ==
    \E at \in [1..Len(query) -> 1..Len(name)] :
        /\ \A i, j \in 1..Len(query) : i < j => at[i] < at[j]
        /\ \A i \in 1..Len(query) : SameLetter(query[i], name[at[i]])

\* The filter has been called with a query that is not empty.
Filtered == call.op = "FilterRows" /\ call.done /\ call.arg # <<>>

----------------------------------------------------------------------------
(* C23 *)

\* C23: for a query that is not empty the filter gives exactly the stored
\* rows in whose name the symbols of the query occur in order, whatever
\* their case: each such row once, and no other row.
C23_FilterGivesTheMatchingRows ==
    Filtered =>
      /\ \A k \in 1..Len(call.out) :
           /\ OccursIn(call.arg, call.out[k][1])
           /\ \E i \in 1..Len(rows) : rows[i] = call.out[k]
      /\ \A i \in 1..Len(rows) :
           OccursIn(call.arg, rows[i][1]) =>
             \E k \in 1..Len(call.out) : call.out[k] = rows[i]
      /\ Len(call.out) =
           Cardinality({i \in 1..Len(rows) : OccursIn(call.arg, rows[i][1])})

\* The query "Ar" has given two rows of three: the names "ar" and "Ar"
\* match it, a third name does not.
C23_Witness ==
    /\ Filtered /\ call.arg = <<"A", "r">>
    /\ Len(rows) = 3 /\ Len(call.out) = 2
    /\ {call.out[1][1], call.out[2][1]} = {<<"a", "r">>, <<"A", "r">>}

----------------------------------------------------------------------------
(* C24 *)

\* The place of a row in the stored rows.
StoredIndex(row) == CHOOSE i \in 1..Len(rows) : rows[i] = row

\* The score of a row for the query of the call: the distance the matcher
\* ranks by, smaller for a closer match.
Score(row) == LevenshteinDistance(call.arg, row[1])

\* C24, as claimed: the filtered rows come closest match first, and rows of
\* equal score in the order they have in the stored rows.
C24_FilterOrderIsStable ==
    Filtered =>
      \A j, k \in 1..Len(call.out) :
        j < k =>
          /\ Score(call.out[j]) <= Score(call.out[k])
          /\ Score(call.out[j]) = Score(call.out[k]) =>
               StoredIndex(call.out[j]) < StoredIndex(call.out[k])

\* C24, amended: the filtered rows come closest match first; rows of equal
\* score come in no order that is guaranteed.
C24_FilterOrdersByScore ==
    Filtered =>
      \A j, k \in 1..Len(call.out) :
        j < k => Score(call.out[j]) <= Score(call.out[k])

\* The filter has given rows of two scores, closest first, and two rows of
\* equal score the later of the stored rows first.
C24_Witness ==
    /\ Filtered
    /\ \E j, k \in 1..Len(call.out) :
         j < k /\ Score(call.out[j]) < Score(call.out[k])
    /\ \E j, k \in 1..Len(call.out) :
         /\ j < k /\ Score(call.out[j]) = Score(call.out[k])
         /\ StoredIndex(call.out[j]) > StoredIndex(call.out[k])

----------------------------------------------------------------------------
(* C25 *)

\* extractRows has returned.
Extracted == call.op = "extractRows" /\ call.done

\* The place of the location of a row in the sitelist as fetched.
FetchIndex(row) == CHOOSE i \in 1..Len(call.arg) : Row(call.arg[i]) = row

\* The stored rows are the rows of the fetched locations, each once.
OneRowPerLocation ==
    /\ Len(rows) = Len(call.arg)
    /\ \A i \in 1..Len(call.arg) :
         Cardinality({k \in 1..Len(rows) : rows[k] = Row(call.arg[i])}) = 1
    /\ \A j, k \in 1..Len(rows) : j # k => rows[j][2] # rows[k][2]

\* The stored rows are in ascending order of name, bytewise.
AscendingByName ==
    \A j, k \in 1..Len(rows) : j < k => ~StrLess(rows[k][1], rows[j][1])

\* C25, as claimed: after startup there is one stored row per fetched
\* location, in ascending order of name, rows of equal name in the order
\* they were fetched in.
C25_RowsSortedStably ==
    Extracted =>
      /\ OneRowPerLocation
      /\ AscendingByName
      /\ \A j, k \in 1..Len(rows) :
           (j < k /\ rows[j][1] = rows[k][1]) =>
             FetchIndex(rows[j]) < FetchIndex(rows[k])

\* C25, amended: after startup there is one stored row per fetched location,
\* in ascending order of name (bytewise, upper case before lower case); rows
\* of equal name come in no order that is guaranteed.
C25_RowsSortedByName ==
    Extracted => (OneRowPerLocation /\ AscendingByName)

\* Three locations are stored, the name "Ar" before the name "a", and two
\* rows of equal name the later fetched first.
C25_Witness ==
    /\ Extracted /\ Len(rows) = 3
    /\ rows[1][1] = <<"A", "r">>
    /\ rows[2][1] = <<"a">> /\ rows[3][1] = <<"a">>
    /\ FetchIndex(rows[2]) > FetchIndex(rows[3])

----------------------------------------------------------------------------
(* C26 *)

\* C26: the program never shows Search on an empty location index: a
\* sitelist of no location ends the startup.
C26_NoSearchOnEmptyIndex ==
    ~(status = "running" /\ ActiveView(m) = "Search" /\ rows = <<>>)

----------------------------------------------------------------------------
(* C27 *)

\* C27: Fetch returns the body served, byte for byte and not nil (the empty
\* body too), when the request and the read of the body succeed, and nil
\* when the request fails or the read fails.
C27_FetchReturnsBodyOrNil ==
    (call.op = "Fetch" /\ call.done) =>
      LET t == call.arg
      IN  /\ (t.get = "ok" /\ t.read = "ok") =>
                (~call.out.nil /\ call.out.bytes = t.body)
          /\ (t.get = "error" \/ t.read = "error") => call.out.nil

\* A body of two bytes has been fetched.
C27_Witness ==
    /\ call.op = "Fetch" /\ call.done
    /\ call.arg.get = "ok" /\ call.arg.read = "ok"
    /\ call.arg.body = <<123, 255>>
    /\ call.out = [nil |-> FALSE, bytes |-> <<123, 255>>]

----------------------------------------------------------------------------
(* C28 *)

\* C28: in every reachable state forecastChosen implies locationChosen: the
\* two flags are never set as (forecastChosen, not locationChosen).
C28_ForecastImpliesLocation == m.forecastChosen => m.locationChosen

\* Enter in LocationList has set the second flag on top of the first.
C28_Witness ==
    /\ m.forecastChosen /\ m.locationChosen /\ status = "running"
    /\ handler = "updateLocation" /\ IsKey(lastMsg, "enter")

----------------------------------------------------------------------------
(* C29 *)

\* C29: after startup the names and the stored rows are aligned: as many of
\* the one as of the other, the i-th row carrying the i-th name, so that the
\* row at the OriginalIndex of a match carries the name matched (for every
\* query once extractRows has returned, and for the query of each filter call).
C29_NamesAndRowsAligned ==
    (call.op \in {"extractRows", "FilterRows"} /\ call.done) =>
      /\ Len(placenames) = Len(rows)
      /\ \A i \in 1..Len(rows) : rows[i][1] = placenames[i]
      /\ \A q \in (IF Extracted THEN QueryValues ELSE {call.arg}) :
           LET ranks == RankFindFold(q, placenames, 1)
           IN  \A k \in 1..Len(ranks) :
                 rows[ranks[k].OriginalIndex + 1][1] = ranks[k].Target

\* Three locations fetched in another order than that of their names are
\* stored, the sort having moved rows of different names.
C29_Witness ==
    /\ Extracted /\ Len(rows) = 3
    /\ call.arg[1].Name = <<"r", "a">> /\ call.arg[3].Name = <<"A">>
    /\ rows[1][1] = <<"A">> /\ placenames[1] = <<"A">>
    /\ rows[3][1] = <<"r", "a">> /\ placenames[3] = <<"r", "a">>

----------------------------------------------------------------------------
(* C30 *)

\* C30: the text input is focused when the program has started and in every
\* state reached from there exactly one of the text input and the table is
\* focused; Enter with the text input focused focuses the table, requests
\* nothing and stays in Search; Esc in Search with the table focused focuses
\* the text input; and Esc in LocationList leads to Search with the table
\* focused.
C30_ExactlyOneFocused ==
    /\ status = "running" => (m.textInput.focus /\ ~m.table.focus)
    /\ [][status = "running" =>
            /\ m'.textInput.focus # m'.table.focus
            /\ (KeyStep("enter") /\ ActiveView(m) = "Search"
                  /\ m.textInput.focus) =>
                 /\ status' = "running" /\ ActiveView(m') = "Search"
                 /\ m'.table.focus /\ req' = <<>>
            /\ (KeyStep("esc") /\ ActiveView(m) = "Search" /\ m.table.focus) =>
                 /\ m'.textInput.focus /\ ActiveView(m') = "Search"
            /\ (KeyStep("esc") /\ ActiveView(m) = "LocationList") =>
                 /\ m'.table.focus /\ ActiveView(m') = "Search"]_vars

\* Esc in Search has moved the focus from the table, its cursor on the
\* second row, back to the text input.
C30_Witness ==
    /\ status = "running" /\ ActiveView(m) = "Search"
    /\ handler = "updateSearch" /\ IsKey(lastMsg, "esc")
    /\ m.textInput.focus /\ ~m.table.focus
    /\ m.table.cursor = 1 /\ m.siteData.Periods # <<>>

----------------------------------------------------------------------------
(* C31 *)

\* C31: the resolution of the model changes only in a step that handles the
\* key "r" in LocationList: every other step, in Search, LocationList or
\* ForecastDetail, leaves it as it was; and a location chosen in Search is
\* requested at the resolution the model holds, the last one toggled to.
C31_OnlyToggleChangesResolution ==
    [][/\ (m'.forecastResolution # m.forecastResolution) =>
            /\ KeyStep("r") /\ ActiveView(m) = "LocationList"
            /\ handler' = "updateLocation"
       /\ (/\ KeyStep("enter") /\ ActiveView(m) = "Search" /\ m.table.focus
           /\ Len(req') >= 1) =>
            \A k \in 1..Len(req') :
               req'[k].request.res = m.forecastResolution]_vars

\* A location chosen in Search after a toggle and a return to Search has
\* been requested and loaded at the three-hourly resolution.
C31_Witness ==
    /\ IsKey(lastMsg, "enter") /\ handler = "updateSearch" /\ status = "running"
    /\ ActiveView(m) = "LocationList"
    /\ m.forecastResolution = threeHourlyResolution
    /\ Len(req) = 1 /\ req[1].request.res = threeHourlyResolution

====
